---------------------------- MODULE Spec2Model ----------------------------
(***************************************************************************)
(* Model of the inmobilia-graph agent: the guardrail gates and their       *)
(* routing graph (src/src/agent/guardrails.py, src/src/agent/graph.py),    *)
(* the per-turn entrypoint (src/app.py), the CRM tools                     *)
(* (src/src/agent/tools.py) and the simulated CRM store                    *)
(* (src/src/agent/external_api.py).                                        *)
(*                                                                         *)
(* Reading of the graph runner.  The state is one Python dict per turn.    *)
(* Each node is handed that dict, may mutate it in place, and returns a    *)
(* dict whose keys are merged into it; the router of a conditional edge    *)
(* then reads the merged dict.  Tools are plain functions over the same    *)
(* dict.  Text is modelled as a sequence of words: re.search for a word    *)
(* pattern is "some word of the text is in the pattern's set", and         *)
(* Python's `phrase in text` is "phrase is a contiguous run of words".     *)
(* Accents are dropped from the words (the module is ASCII).               *)
(***************************************************************************)
EXTENDS Integers, Sequences, FiniteSets, TLC

VARIABLES
    pc,         \* pc[t]: the node thread t's turn is about to run
    state,      \* state[t]: the state dict of thread t's current turn
    leads_db,   \* crm_api.leads_db, the process-wide CRM store
    budget,     \* budget[t]: tool calls the supervisor may still make this turn
    last,       \* history: the step that ran last (node, input, result)
    visited,    \* history: visited[t], the nodes run so far in t's turn
    crmCalls,   \* history: crmCalls[t], CRM operations invoked in t's turn
    blocked,    \* history: blocked[t], the gate that triggered in t's turn
    consentEver, \* history: consentEver[t], a Consent gate of t recognised consent
    args,       \* history: the arguments of the tool call that ran last
    stale       \* history: stale[t], t's previous turn ended with the flag set

vars == <<pc, state, leads_db, budget, last, visited, crmCalls, blocked,
          consentEver, args, stale>>

---------------------------------------------------------------------------
(* Bounds *)

\* Tool calls the supervisor makes in one turn of the pipeline.
MaxToolCalls == 1

\* Tool calls the supervisor makes when the tools are explored on their own.
MaxToolSteps == 3

Threads == {1, 2}

---------------------------------------------------------------------------
(* Python dict helpers *)

Get(d, k, dflt) == IF k \in DOMAIN d THEN d[k] ELSE dflt

Put(d, k, v) == (k :> v) @@ d

\* dict.update / the runner's merge of a node's returned dict
Merge(d, u) == u @@ d

EmptyDict == [k \in {} |-> TRUE]

\* `phrase in text` on word sequences
Contains(text, phrase) ==
    \E i \in 0..(Len(text) - Len(phrase)) :
        \A j \in 1..Len(phrase) : text[i + j] = phrase[j]

\* re.search of an alternation of words
SearchAny(text, words) == \E i \in 1..Len(text) : text[i] \in words

\* re.search of (a1|a2).*(b1|b2)
SearchPair(text, firsts, seconds) ==
    \E i \in 1..Len(text) : \E j \in (i + 1)..Len(text) :
        text[i] \in firsts /\ text[j] \in seconds

---------------------------------------------------------------------------
(* Pattern Matcher: the word sets of the regular expressions *)

\* relevance_check's inmobiliario_patterns (one word per alternation listed)
InmobiliarioWords == {"casa", "departamento", "miraflores", "precio", "alquiler"}

\* relevance_check's greeting regex, anchored at the start of the text
GreetingWords == {"hola"}

\* relevance_check's off_topic_patterns
OffTopicWords == {"ecuacion", "elecciones", "futbol"}

\* get_compiled_patterns("peligroso"): (first).*(second)
PeligrosoFirst == {"ignore", "olvida", "revelar"}

PeligrosoSecond == {"instrucciones", "prompt"}

\* get_compiled_patterns("consentimiento")
ConsentWords == {"acepto", "autorizo", "si", "confirmo"}

\* get_pii_patterns(): the kinds in the dict's order, and the words of each
PIIKinds == <<"email", "telefono", "DNI", "direccion", "nombre completo">>

PIIWords(kind) ==
    CASE kind = "email" -> {"ana@x.pe"}
      [] kind = "telefono" -> {"987654321"}
      [] kind = "DNI" -> {"12345678"}
      [] kind = "direccion" -> {"av"}
      [] kind = "nombre completo" -> {"AnaPerez"}

MatchesInmobiliario(text) == SearchAny(text, InmobiliarioWords)

MatchesGreeting(text) == Len(text) >= 1 /\ text[1] \in GreetingWords

MatchesOffTopic(text) == SearchAny(text, OffTopicWords)

MatchesPeligroso(text) == SearchPair(text, PeligrosoFirst, PeligrosoSecond)

MatchesConsent(text) == SearchAny(text, ConsentWords)

\* pii_check's loop over pii_patterns.items(): the kinds detected, in order
RECURSIVE DetectedFrom(_, _)
DetectedFrom(text, i) ==
    IF i > Len(PIIKinds) THEN <<>>
    ELSE (IF SearchAny(text, PIIWords(PIIKinds[i])) THEN <<PIIKinds[i]>> ELSE <<>>)
         \o DetectedFrom(text, i + 1)

DetectedPII(text) == DetectedFrom(text, 1)

---------------------------------------------------------------------------
(* Messages and the classifier collaborator *)

\* A message that is a mapping (dict) has a role; any other object has no .get
IsMapping(m) == "role" \in DOMAIN m

HumanMsg(text) == [role |-> "human", content |-> text]

AssistantMsg(text) == [role |-> "assistant", content |-> text]

NoContentMsg == [role |-> "human"]

ObjectMsg == [object |-> "message"]

\* What model.invoke and the parse of its answer can do: raise, answer text
\* that is no JSON, JSON that does not fit the schema, or a parsed output
\* whose boolean field is `flag` (and, for PII, detected_pii_types `types`).
ClsFail == {[kind |-> k, flag |-> FALSE, types |-> <<>>] :
                k \in {"raise", "not_json", "bad_schema"}}

ClsBool == ClsFail \cup
           {[kind |-> "ok", flag |-> b, types |-> <<>>] : b \in BOOLEAN}

PIITypeLists == {<<>>, <<"email">>, <<"numero de seguridad social">>}

ClsPII == ClsFail \cup
          {[kind |-> "ok", flag |-> b, types |-> ts] :
                b \in BOOLEAN, ts \in PIITypeLists}

\* A text as its words: the detected types of a PII answer, joined by ", "
TypeWords(ty) ==
    CASE ty = "numero de seguridad social" -> <<"numero", "de", "seguridad", "social">>
      [] ty = "nombre completo" -> <<"nombre", "completo">>
      [] OTHER -> <<ty>>

RECURSIVE JoinTypes(_)
JoinTypes(ts) ==
    IF ts = <<>> THEN <<>> ELSE TypeWords(Head(ts)) \o JoinTypes(Tail(ts))

---------------------------------------------------------------------------
(* Reasons and canned responses *)

ReasonRelevancePattern ==
    <<"Tu", "consulta", "no", "esta", "relacionada", "con", "bienes", "raices">>

ReasonRelevanceLLM ==
    <<"Tu", "consulta", "no", "parece", "estar", "relacionada", "con", "bienes", "raices">>

ReasonSecurityPattern ==
    <<"El", "mensaje", "contiene", "patrones", "de", "manipulacion", "potencial">>

ReasonSecurityLLM ==
    <<"El", "mensaje", "representa", "un", "potencial", "riesgo", "de", "seguridad">>

ReasonPII(types) ==
    <<"La", "respuesta", "contiene", "informacion", "personal">>
    \o JoinTypes(types) \o <<"sin", "consentimiento">>

ResponseRelevance == <<"Disculpa", "soy", "un", "asistente", "especializado">>

ResponseSecurity == <<"Por", "seguridad", "mantengamos", "nuestra", "conversacion">>

ResponseConsent == <<"necesito", "tu", "consentimiento", "Me", "autorizas">>

ResponseGeneric == <<"Estoy", "aqui", "para", "ayudarte", "exclusivamente">>

ResponseError == <<"Estoy", "aqui", "para", "ayudarte">>

---------------------------------------------------------------------------
(* Guardrail gates.  Each takes the state dict s and what the classifier   *)
(* would do if called (cls), and yields the dict after the gate's in-place *)
(* mutations (s), the dict the gate returns (ret) and whether the          *)
(* classifier was invoked.                                                 *)

Allowed == [guardrail_triggered |-> FALSE]

Triggered(reason) == [guardrail_triggered |-> TRUE, reason |-> reason]

GateResult(s, ret, invoked) == [s |-> s, ret |-> ret, invoked |-> invoked]

\* update_guardrail_cache: creates guardrail_cache and events when missing,
\* then appends one event
\* update_guardrail_cache keeping only the event it writes
update_guardrail_cache_overwrite(s, agent, triggered, info) ==
    LET cache == Get(s, "guardrail_cache", EmptyDict)
        event == [agent |-> agent, triggered |-> triggered, info |-> info,
                  time |-> Get(s, "now", "")]
    IN Put(s, "guardrail_cache", Put(cache, "events", <<event>>))

update_guardrail_cache(s, agent, triggered, info) ==
    LET cache == Get(s, "guardrail_cache", EmptyDict)
        events == Get(cache, "events", <<>>)
        event == [agent |-> agent, triggered |-> triggered, info |-> info,
                  time |-> Get(s, "now", "")]
    IN Put(s, "guardrail_cache", Put(cache, "events", Append(events, event)))

\* relevance_patterns with the blocklist tried before the domain patterns
relevance_patterns_blocklist_first(last_msg) ==
    IF MatchesOffTopic(last_msg) THEN "block"
    ELSE IF MatchesInmobiliario(last_msg) THEN "allow"
    ELSE IF MatchesGreeting(last_msg) THEN "allow"
    ELSE "ambiguous"

\* relevance_patterns without the blocklist: off-topic text goes to the classifier
relevance_patterns_no_blocklist(last_msg) ==
    IF MatchesInmobiliario(last_msg) THEN "allow"
    ELSE IF MatchesGreeting(last_msg) THEN "allow"
    ELSE "ambiguous"

\* relevance_check's three pattern stages, in the order the code tries them
relevance_patterns(last_msg) ==
    IF MatchesInmobiliario(last_msg) THEN "allow"
    ELSE IF MatchesGreeting(last_msg) THEN "allow"
    ELSE IF MatchesOffTopic(last_msg) THEN "block"
    ELSE "ambiguous"

relevance_check(s, cls) ==
    LET messages == Get(s, "messages", <<>>) IN
    IF messages = <<>> THEN GateResult(s, Allowed, FALSE)
    ELSE IF ~IsMapping(messages[Len(messages)])
    THEN GateResult(s, Allowed, FALSE)      \* AttributeError, outer except
    ELSE
      LET last_msg == Get(messages[Len(messages)], "content", <<>>)
          verdict == relevance_patterns(last_msg)
      IN
      IF verdict = "allow" THEN GateResult(s, Allowed, FALSE)
      ELSE IF verdict = "block"
      THEN GateResult(s, Triggered(ReasonRelevancePattern), FALSE)
      ELSE IF cls.kind = "raise" THEN GateResult(s, Allowed, TRUE)
      ELSE IF cls.kind # "ok" THEN GateResult(s, Allowed, TRUE)
      ELSE IF ~cls.flag
      THEN GateResult(s, Triggered(ReasonRelevanceLLM), TRUE)
      ELSE GateResult(s, Allowed, TRUE)

\* security_check failing closed: a classifier failure blocks the message
security_check_failclosed(s, cls) ==
    LET messages == Get(s, "messages", <<>>) IN
    IF messages = <<>> THEN GateResult(s, Allowed, FALSE)
    ELSE IF ~IsMapping(messages[Len(messages)])
    THEN GateResult(s, Allowed, FALSE)
    ELSE
      LET last_msg == Get(messages[Len(messages)], "content", <<>>) IN
      IF MatchesPeligroso(last_msg)
      THEN GateResult(s, Triggered(ReasonSecurityPattern), FALSE)
      ELSE IF cls.kind # "ok"
      THEN GateResult(s, Triggered(ReasonSecurityLLM), TRUE)
      ELSE
        LET s2 == update_guardrail_cache(s, "security_check", ~cls.flag,
                                         [is_safe |-> cls.flag])
        IN IF ~cls.flag
           THEN GateResult(s2, Triggered(ReasonSecurityLLM), TRUE)
           ELSE GateResult(s2, Allowed, TRUE)

security_check(s, cls) ==
    LET messages == Get(s, "messages", <<>>) IN
    IF messages = <<>> THEN GateResult(s, Allowed, FALSE)
    ELSE IF ~IsMapping(messages[Len(messages)])
    THEN GateResult(s, Allowed, FALSE)
    ELSE
      LET last_msg == Get(messages[Len(messages)], "content", <<>>) IN
      IF MatchesPeligroso(last_msg)
      THEN GateResult(s, Triggered(ReasonSecurityPattern), FALSE)
      ELSE IF cls.kind # "ok" THEN GateResult(s, Allowed, TRUE)
      ELSE
        LET s2 == update_guardrail_cache(s, "security_check", ~cls.flag,
                                         [is_safe |-> cls.flag])
        IN IF ~cls.flag
           THEN GateResult(s2, Triggered(ReasonSecurityLLM), TRUE)
           ELSE GateResult(s2, Allowed, TRUE)

\* consent_check blocking the flow when the classifier finds no consent
consent_check_blocking(s, cls) ==
    IF Get(s, "consent_obtained", FALSE) THEN GateResult(s, Allowed, FALSE)
    ELSE
      LET messages == Get(s, "messages", <<>>) IN
      IF messages = <<>> THEN GateResult(s, Allowed, FALSE)
      ELSE IF ~IsMapping(messages[Len(messages)])
      THEN GateResult(s, Allowed, FALSE)
      ELSE
        LET last_msg == Get(messages[Len(messages)], "content", <<>>) IN
        IF MatchesConsent(last_msg)
        THEN GateResult(Put(s, "consent_obtained", TRUE), Allowed, FALSE)
        ELSE IF cls.kind # "ok" THEN GateResult(s, Allowed, TRUE)
        ELSE
          LET s1 == IF cls.flag THEN Put(s, "consent_obtained", TRUE) ELSE s
              s2 == update_guardrail_cache(s1, "consent_check", ~cls.flag,
                                           [consent_obtained |-> cls.flag])
          IN GateResult(s2, [guardrail_triggered |-> ~cls.flag], TRUE)

consent_check(s, cls) ==
    IF Get(s, "consent_obtained", FALSE) THEN GateResult(s, Allowed, FALSE)
    ELSE
      LET messages == Get(s, "messages", <<>>) IN
      IF messages = <<>> THEN GateResult(s, Allowed, FALSE)
      ELSE IF ~IsMapping(messages[Len(messages)])
      THEN GateResult(s, Allowed, FALSE)
      ELSE
        LET last_msg == Get(messages[Len(messages)], "content", <<>>) IN
        IF MatchesConsent(last_msg)
        THEN GateResult(Put(s, "consent_obtained", TRUE), Allowed, FALSE)
        ELSE IF cls.kind # "ok" THEN GateResult(s, Allowed, TRUE)
        ELSE
          LET s1 == IF cls.flag THEN Put(s, "consent_obtained", TRUE) ELSE s
              s2 == update_guardrail_cache(s1, "consent_check", ~cls.flag,
                                           [consent_obtained |-> cls.flag])
          IN GateResult(s2, Allowed, TRUE)

\* pii_check without the guard for an empty message list: the empty text
\* goes to the classifier
pii_check_no_empty_guard(s, cls) ==
    IF Get(s, "consent_obtained", FALSE) THEN GateResult(s, Allowed, FALSE)
    ELSE
      LET messages == Get(s, "messages", <<>>)
          last_msg == IF messages = <<>> \/ ~IsMapping(messages[Len(messages)])
                      THEN <<>>
                      ELSE Get(messages[Len(messages)], "content", <<>>)
          detected_pii == DetectedPII(last_msg)
      IN
        IF detected_pii # <<>>
        THEN GateResult(s, Triggered(ReasonPII(detected_pii)), FALSE)
        ELSE IF cls.kind # "ok" THEN GateResult(s, Allowed, TRUE)
        ELSE
          LET s2 == update_guardrail_cache(s, "pii_check", cls.flag,
                        [contains_pii |-> cls.flag,
                         detected_pii_types |-> cls.types])
          IN IF cls.flag
             THEN GateResult(s2, Triggered(ReasonPII(cls.types)), TRUE)
             ELSE GateResult(s2, Allowed, TRUE)

pii_check(s, cls) ==
    IF Get(s, "consent_obtained", FALSE) THEN GateResult(s, Allowed, FALSE)
    ELSE
      LET messages == Get(s, "messages", <<>>) IN
      IF messages = <<>> THEN GateResult(s, Allowed, FALSE)
      ELSE IF ~IsMapping(messages[Len(messages)])
      THEN GateResult(s, Allowed, FALSE)
      ELSE
        LET last_msg == Get(messages[Len(messages)], "content", <<>>)
            detected_pii == DetectedPII(last_msg)
        IN
        IF detected_pii # <<>>
        THEN GateResult(s, Triggered(ReasonPII(detected_pii)), FALSE)
        ELSE IF cls.kind # "ok" THEN GateResult(s, Allowed, TRUE)
        ELSE
          LET s2 == update_guardrail_cache(s, "pii_check", cls.flag,
                        [contains_pii |-> cls.flag,
                         detected_pii_types |-> cls.types])
          IN IF cls.flag
             THEN GateResult(s2, Triggered(ReasonPII(cls.types)), TRUE)
             ELSE GateResult(s2, Allowed, TRUE)

\* guardrail_router reading a key no gate writes
guardrail_router_wrong_key(s) ==
    IF Get(s, "triggered", FALSE)
    THEN "generate_guardrail_response"
    ELSE "continue_normal_flow"

\* guardrail_router: reads the flag from the state dict
guardrail_router(s) ==
    IF Get(s, "guardrail_triggered", FALSE)
    THEN "generate_guardrail_response"
    ELSE "continue_normal_flow"

\* generate_guardrail_response staying silent when the reason matches no cause
generate_guardrail_response_silent(s) ==
    LET reason == Get(s, "reason", <<>>)
        isRel == Contains(reason, <<"no", "esta", "relacionada">>)
                 \/ Contains(reason, <<"no", "relacionado">>)
        isSec == Contains(reason, <<"seguridad">>) \/ Contains(reason, <<"riesgo">>)
        isPII == Contains(reason, <<"informacion", "personal">>)
                 \/ Contains(reason, <<"sin", "consentimiento">>)
        response == IF isRel THEN ResponseRelevance
                    ELSE IF isSec THEN ResponseSecurity
                    ELSE ResponseConsent
        messages == Get(s, "messages", <<>>)
    IN IF isRel \/ isSec \/ isPII
       THEN Put(s, "messages", Append(messages, AssistantMsg(response)))
       ELSE Put(s, "messages", messages)

\* generate_guardrail_response: picks the message by phrases of the reason,
\* marks the cache when consent is what is missing, appends the message
generate_guardrail_response(s) ==
    LET reason == Get(s, "reason", <<>>)
        isRel == Contains(reason, <<"no", "esta", "relacionada">>)
                 \/ Contains(reason, <<"no", "relacionado">>)
        isSec == Contains(reason, <<"seguridad">>) \/ Contains(reason, <<"riesgo">>)
        isPII == Contains(reason, <<"informacion", "personal">>)
                 \/ Contains(reason, <<"sin", "consentimiento">>)
        response == IF isRel THEN ResponseRelevance
                    ELSE IF isSec THEN ResponseSecurity
                    ELSE IF isPII THEN ResponseConsent
                    ELSE ResponseGeneric
        s1 == IF ~isRel /\ ~isSec /\ isPII
              THEN Put(s, "guardrail_cache",
                       Put(Get(s, "guardrail_cache", EmptyDict),
                           "awaiting_personal_data", TRUE))
              ELSE s
        messages == Get(s1, "messages", <<>>)
    IN Put(s1, "messages", Append(messages, AssistantMsg(response)))

---------------------------------------------------------------------------
(* Validation of customer data (tools.py, models.py).  A value is a string; *)
(* what a regular expression or a length test sees of it is tabulated.      *)

None == "None"

\* Python truthiness of an Optional[str] argument
Truthy(x) == x # None /\ x # ""

\* [re: matches ^[\w\.-]+@[\w\.-]+\.\w+$, strict: accepted by EmailStr]
EmailProps(e) ==
    CASE e = "ana@x.pe" -> [re |-> TRUE, strict |-> TRUE]
      [] e = "ana..p@x.pe" -> [re |-> TRUE, strict |-> FALSE]
      [] OTHER -> [re |-> FALSE, strict |-> FALSE]

\* [cc: starts with +51, digits: the digits that follow, and nothing else]
PhoneProps(p) ==
    CASE p = "+51987654321" -> [cc |-> TRUE, digits |-> 9]
      [] p = "987654321" -> [cc |-> FALSE, digits |-> 9]
      [] p = "+5198765432" -> [cc |-> TRUE, digits |-> 8]
      [] OTHER -> [cc |-> FALSE, digits |-> 0]

\* [len, digits: only digits, alnum: only letters and digits]
DocProps(n) ==
    CASE n = "12345678" -> [len |-> 8, digits |-> TRUE, alnum |-> TRUE]
      [] n = "1234" -> [len |-> 4, digits |-> TRUE, alnum |-> TRUE]
      [] n = "AB-1234" -> [len |-> 7, digits |-> FALSE, alnum |-> FALSE]
      [] OTHER -> [len |-> 0, digits |-> FALSE, alnum |-> FALSE]

validate_email(e) == EmailProps(e).re

validate_phone(p) == PhoneProps(p).cc /\ PhoneProps(p).digits = 9

validate_document(tipo, numero) ==
    IF tipo = "1" THEN DocProps(numero).digits /\ DocProps(numero).len = 8
    ELSE IF tipo \in {"2", "3"}
    THEN 3 <= DocProps(numero).len /\ DocProps(numero).len <= 15
    ELSE FALSE

\* The enums of models.py
PropertyType == {"1", "2", "3", "4", "5"}

ZoneOption == {"1", "2", "3", "4", "5", "6", "7", "8"}

AreaRange == {"1", "2", "3", "4", "5", "6"}

DocType == {"1", "2", "3"}

BedroomsOption == {"1", "2", "3", "4", "5"}

BudgetOption == {"1", "2", "3", "4", "5", "6"}

TimeframeOption == {"1", "2", "3", "4"}

YesNo == {"SI", "NO"}

PurposeOption == {"vivienda_principal", "inversion", "segunda_vivienda"}

\* ContactInfo(...): nombre min_length 1, telefono pattern, email EmailStr
ContactInfoOK(nombre, telefono, email) ==
    /\ nombre # "" /\ nombre # None
    /\ validate_phone(telefono)
    /\ (email = None \/ EmailProps(email).strict)

\* Document(...): tipo a DocType, numero 3..15 letters and digits
DocumentOK(tipo, numero) ==
    /\ tipo \in DocType
    /\ DocProps(numero).alnum
    /\ 3 <= DocProps(numero).len /\ DocProps(numero).len <= 15

ToolResult(s, db, ret, crm) == [s |-> s, db |-> db, ret |-> ret, crm |-> crm]

ErrorResult(message, errors) ==
    [lead_id |-> "", status |-> "error", message |-> message, errors |-> errors]

SuccessResult(lead_id, message) ==
    [lead_id |-> lead_id, status |-> "success", message |-> message, errors |-> <<>>]

\* The errors validate_customer_data collects, in its order
ValidationErrors(email, telefono, tipo_documento, numero_documento) ==
    (IF Truthy(email) /\ ~validate_email(email) THEN <<"Email invalido.">> ELSE <<>>)
    \o (IF Truthy(telefono) /\ ~validate_phone(telefono)
        THEN <<"Telefono invalido.">> ELSE <<>>)
    \o (IF Truthy(tipo_documento) /\ Truthy(numero_documento)
           /\ ~validate_document(tipo_documento, numero_documento)
        THEN <<"Documento invalido.">> ELSE <<>>)

\* dict `d` with d[k] = v set for each key of `ks` whose value is truthy
RECURSIVE PutTruthy(_, _)
PutTruthy(d, kvs) ==
    IF kvs = <<>> THEN d
    ELSE LET kv == Head(kvs)
         IN PutTruthy(IF Truthy(kv[2]) THEN Put(d, kv[1], kv[2]) ELSE d, Tail(kvs))

validate_customer_data(s, nombre, email, telefono, tipo_documento, numero_documento) ==
    LET errors == ValidationErrors(email, telefono, tipo_documento, numero_documento)
        ud == PutTruthy(Get(s, "user_data", EmptyDict),
                        << <<"nombre", nombre>>, <<"email", email>>,
                           <<"telefono", telefono>>,
                           <<"tipo_documento", tipo_documento>>,
                           <<"numero_documento", numero_documento>> >>)
    IN [s |-> IF errors = <<>> THEN Put(s, "user_data", ud) ELSE s,
        ret |-> [valid |-> errors = <<>>, errors |-> errors]]

---------------------------------------------------------------------------
(* The CRM store (external_api.py) *)

\* f"L{random.randint(10000, 99999)}": the ids the generator draws from
LeadIds == {"L10000", "L10001"}

crm_register_prelead(db, lead_id, prelead_data) ==
    Put(db, lead_id, [data |-> prelead_data, stage |-> "prelead"])

\* [ok, db]: False and no change when the id is unknown
crm_update_lead(db, lead_id, lead_data) ==
    IF lead_id \notin DOMAIN db THEN [ok |-> FALSE, db |-> db]
    ELSE [ok |-> TRUE,
          db |-> Put(db, lead_id, [data |-> lead_data, stage |-> "lead"])]

\* [ok, db]: False and no change when the id is unknown
crm_enrich_lead(db, lead_id, enriched_data) ==
    IF lead_id \notin DOMAIN db THEN [ok |-> FALSE, db |-> db]
    ELSE [ok |-> TRUE,
          db |-> Put(db, lead_id, [data |-> enriched_data, stage |-> "enriched_lead"])]

---------------------------------------------------------------------------
(* The CRM tools (tools.py) *)

register_prelead(s, db, lead_id, nombre, telefono, tipo_inmueble, zona, metraje, proyecto_id) ==
    LET v == validate_customer_data(s, nombre, None, telefono, None, None) IN
    IF ~v.ret.valid
    THEN ToolResult(v.s, db, ErrorResult("Datos invalidos", v.ret.errors), 0)
    ELSE IF ~ContactInfoOK(nombre, telefono, None)
    THEN ToolResult(v.s, db, ErrorResult("ValidationError", <<"ValidationError">>), 0)
    ELSE IF tipo_inmueble \notin PropertyType \/ zona \notin ZoneOption
            \/ metraje \notin AreaRange
    THEN ToolResult(v.s, db, ErrorResult("ValueError", <<"ValueError">>), 0)
    ELSE IF proyecto_id = ""
    THEN ToolResult(v.s, db, ErrorResult("ValidationError", <<"ValidationError">>), 0)
    ELSE
      LET pl == [contacto |-> [nombre |-> nombre, telefono |-> telefono, email |-> None],
                 tipo_inmueble |-> tipo_inmueble, zona |-> zona, metraje |-> metraje,
                 consentimiento |-> "SI", proyecto_id |-> proyecto_id]
          ud == Merge(Get(v.s, "user_data", EmptyDict),
                      [lead_id |-> lead_id, lead_stage |-> "prelead",
                       nombre |-> nombre, telefono |-> telefono,
                       tipo_inmueble |-> tipo_inmueble,
                       zona |-> zona, metraje |-> metraje])
      IN ToolResult(Put(v.s, "user_data", ud),
                    crm_register_prelead(db, lead_id, pl),
                    SuccessResult(lead_id, "PreLead"), 1)

\* register_lead once the prelead is known to exist: validation, the Lead
\* record, the CRM update, the update of user_data
register_lead_checked(s, db, email, habitaciones, presupuesto, tiempo_compra, tiempo_busqueda, tipo_documento, numero_documento) ==
    LET v == validate_customer_data(s, None, email, None, tipo_documento, numero_documento)
        ud == Get(v.s, "user_data", EmptyDict)
        hasDoc == Truthy(tipo_documento) /\ Truthy(numero_documento)
    IN
    IF ~v.ret.valid
    THEN ToolResult(v.s, db, ErrorResult("Datos invalidos", v.ret.errors), 0)
    ELSE IF ~ContactInfoOK(ud["nombre"], ud["telefono"], email)
    THEN ToolResult(v.s, db, ErrorResult("ValidationError", <<"ValidationError">>), 0)
    ELSE IF hasDoc /\ ~DocumentOK(tipo_documento, numero_documento)
    THEN ToolResult(v.s, db, ErrorResult("ValidationError", <<"ValidationError">>), 0)
    ELSE IF \/ ud["tipo_inmueble"] \notin PropertyType
            \/ ud["zona"] \notin ZoneOption
            \/ ud["metraje"] \notin AreaRange
            \/ habitaciones \notin BedroomsOption
            \/ presupuesto \notin BudgetOption
            \/ tiempo_compra \notin TimeframeOption
            \/ tiempo_busqueda \notin TimeframeOption
    THEN ToolResult(v.s, db, ErrorResult("ValueError", <<"ValueError">>), 0)
    ELSE
      LET lead == [contacto |-> [nombre |-> ud["nombre"], telefono |-> ud["telefono"],
                                 email |-> email],
                   tipo_inmueble |-> ud["tipo_inmueble"], zona |-> ud["zona"],
                   metraje |-> ud["metraje"], habitaciones |-> habitaciones,
                   presupuesto |-> presupuesto, tiempo_compra |-> tiempo_compra,
                   tiempo_busqueda |-> tiempo_busqueda,
                   document |-> IF hasDoc
                                THEN [tipo |-> tipo_documento, numero |-> numero_documento]
                                ELSE [tipo |-> None, numero |-> None],
                   consentimiento |-> "SI",
                   proyecto_id |-> Get(ud, "proyecto_id", "WEB001")]
          upd == crm_update_lead(db, ud["lead_id"], lead)
      IN
      IF ~upd.ok
      THEN ToolResult(v.s, db, ErrorResult("CRM update_lead fallo",
                                           <<"CRM update_lead fallo">>), 1)
      ELSE ToolResult(
             Put(v.s, "user_data",
                 Merge(ud, [email |-> email, habitaciones |-> habitaciones,
                            presupuesto |-> presupuesto,
                            tiempo_compra |-> tiempo_compra,
                            tiempo_busqueda |-> tiempo_busqueda,
                            lead_stage |-> "lead"])),
             upd.db, SuccessResult(ud["lead_id"], "Lead actualizado"), 1)

\* register_lead validating (and storing) the new data before it looks for
\* the prelead
register_lead_validate_first(s, db, email, habitaciones, presupuesto, tiempo_compra, tiempo_busqueda, tipo_documento, numero_documento) ==
    LET v == validate_customer_data(s, None, email, None, tipo_documento, numero_documento)
    IN
    IF "lead_id" \notin DOMAIN Get(s, "user_data", EmptyDict)
    THEN ToolResult(v.s, db, ErrorResult("No existe prelead", <<"Prelead no encontrado">>), 0)
    ELSE register_lead_checked(s, db, email, habitaciones, presupuesto, tiempo_compra, tiempo_busqueda, tipo_documento, numero_documento)

\* register_lead writing lead_stage before it looks at the CRM's answer
register_lead_advance_first(s, db, email, habitaciones, presupuesto, tiempo_compra, tiempo_busqueda, tipo_documento, numero_documento) ==
    IF "lead_id" \notin DOMAIN Get(s, "user_data", EmptyDict)
    THEN ToolResult(s, db, ErrorResult("No existe prelead", <<"Prelead no encontrado">>), 0)
    ELSE LET r == register_lead_checked(s, db, email, habitaciones, presupuesto, tiempo_compra, tiempo_busqueda, tipo_documento, numero_documento)
         IN IF r.crm = 1 /\ r.ret.status = "error"
            THEN ToolResult(Put(r.s, "user_data",
                                Put(Get(r.s, "user_data", EmptyDict),
                                    "lead_stage", "lead")),
                            r.db, r.ret, r.crm)
            ELSE r

register_lead(s, db, email, habitaciones, presupuesto, tiempo_compra, tiempo_busqueda, tipo_documento, numero_documento) ==
    IF "lead_id" \notin DOMAIN Get(s, "user_data", EmptyDict)
    THEN ToolResult(s, db, ErrorResult("No existe prelead", <<"Prelead no encontrado">>), 0)
    ELSE register_lead_checked(s, db, email, habitaciones, presupuesto, tiempo_compra, tiempo_busqueda, tipo_documento, numero_documento)

\* Enum(ud[key]) for each <<key, Enum>> of `fields`, in order: the first
\* exception raised, or "ok"
RECURSIVE FirstEnumError(_, _)
FirstEnumError(ud, fields) ==
    IF fields = <<>> THEN "ok"
    ELSE LET f == Head(fields) IN
         IF f[1] \notin DOMAIN ud THEN "KeyError"
         ELSE IF ud[f[1]] \notin f[2] THEN "ValueError"
         ELSE FirstEnumError(ud, Tail(fields))

enrich_lead(s, db, credito_preaprobado, cuota_inicial, proposito) ==
    LET ud == Get(s, "user_data", EmptyDict)
        hasDoc == Truthy(Get(ud, "tipo_documento", None))
                  /\ Truthy(Get(ud, "numero_documento", None))
        enums == FirstEnumError(ud,
                    << <<"tipo_inmueble", PropertyType>>, <<"zona", ZoneOption>>,
                       <<"metraje", AreaRange>>, <<"habitaciones", BedroomsOption>>,
                       <<"presupuesto", BudgetOption>>,
                       <<"tiempo_compra", TimeframeOption>>,
                       <<"tiempo_busqueda", TimeframeOption>> >>)
    IN
    IF "lead_id" \notin DOMAIN ud \/ "email" \notin DOMAIN ud
    THEN ToolResult(s, db, ErrorResult("No existe lead completo",
                                       <<"Lead no encontrado">>), 0)
    ELSE IF "nombre" \notin DOMAIN ud \/ "telefono" \notin DOMAIN ud
    THEN ToolResult(s, db, ErrorResult("KeyError", <<"KeyError">>), 0)
    ELSE IF ~ContactInfoOK(ud["nombre"], ud["telefono"], ud["email"])
    THEN ToolResult(s, db, ErrorResult("ValidationError", <<"ValidationError">>), 0)
    ELSE IF hasDoc /\ ~DocumentOK(ud["tipo_documento"], ud["numero_documento"])
    THEN ToolResult(s, db, ErrorResult("ValidationError", <<"ValidationError">>), 0)
    ELSE IF enums # "ok"
    THEN ToolResult(s, db, ErrorResult(enums, <<enums>>), 0)
    ELSE IF credito_preaprobado \notin YesNo \/ cuota_inicial \notin YesNo
            \/ proposito \notin PurposeOption
    THEN ToolResult(s, db, ErrorResult("ValueError", <<"ValueError">>), 0)
    ELSE
      LET enriched == [contacto |-> [nombre |-> ud["nombre"],
                                     telefono |-> ud["telefono"],
                                     email |-> ud["email"]],
                       habitaciones |-> ud["habitaciones"],
                       presupuesto |-> ud["presupuesto"],
                       credito_preaprobado |-> credito_preaprobado,
                       cuota_inicial |-> cuota_inicial,
                       proposito |-> proposito,
                       consentimiento |-> "SI",
                       proyecto_id |-> Get(ud, "proyecto_id", "WEB001")]
          upd == crm_enrich_lead(db, ud["lead_id"], enriched)
      IN
      IF ~upd.ok
      THEN ToolResult(s, db, ErrorResult("CRM enrich_lead fallo",
                                         <<"CRM enrich_lead fallo">>), 1)
      ELSE ToolResult(
             Put(s, "user_data",
                 Merge(ud, [credito_preaprobado |-> credito_preaprobado,
                            cuota_inicial |-> cuota_inicial,
                            proposito |-> proposito,
                            lead_stage |-> "enriched_lead"])),
             upd.db, SuccessResult(ud["lead_id"], "Lead enriquecido"), 1)

---------------------------------------------------------------------------
(* The property tools (tools.py) *)

\* What the database does with a query: rows, no row, or an exception from
\* the connection or the cursor
DbOutcomes == {"rows", "empty", "fail"}

_map_budget(max_price) ==
    IF max_price <= 350000 THEN "1"
    ELSE IF max_price <= 500000 THEN "2"
    ELSE IF max_price <= 650000 THEN "3"
    ELSE IF max_price <= 800000 THEN "4"
    ELSE IF max_price <= 1000000 THEN "5"
    ELSE "6"

\* str(habitaciones)
StrOfInt(n) ==
    CASE n = 1 -> "1" [] n = 2 -> "2" [] n = 3 -> "3" [] OTHER -> "n"

\* generate_fallback_properties: max_results synthetic listings; the id
\* f"FB-{zd}-{i + 1}" is the tuple of its parts, prices are whole numbers
generate_fallback_properties(zona, tipo, max_precio, habitaciones, max_results) ==
    LET zd == IF Truthy(zona) THEN zona ELSE "Lima"
        tp == IF Truthy(tipo) THEN tipo ELSE "Departamento"
        base == IF max_precio # 0 THEN (max_precio * 9) \div 10 ELSE 150000
        hab == IF habitaciones # 0 THEN habitaciones ELSE 2
    IN [i \in 1..max_results |->
          [id |-> <<"FB", zd, i>>, titulo |-> <<tp, "en", zd>>,
           precio |-> (base * (100 + 5 * (i - 1))) \div 100,
           habitaciones |-> hab + (i - 1)]]

\* sql_query_units: the counters and the search criteria are written to the
\* state before the query runs; rows of the database are returned when there
\* are some, fallback properties otherwise.  An absent Optional number is 0.
sql_query_units(s, zona, tipo_propiedad, max_precio, habitaciones, outcome) ==
    LET s1 == Put(Put(s, "properties_shown", TRUE),
                  "interaction_count", Get(s, "interaction_count", 0) + 1)
        ud0 == Get(s1, "user_data", EmptyDict)
        ud1 == IF Truthy(zona) /\ ~Truthy(Get(ud0, "zona", None))
               THEN Put(ud0, "zona", zona) ELSE ud0
        ud2 == IF Truthy(tipo_propiedad) /\ ~Truthy(Get(ud1, "tipo_inmueble", None))
               THEN Put(ud1, "tipo_inmueble", tipo_propiedad) ELSE ud1
        ud3 == IF habitaciones # 0 /\ ~Truthy(Get(ud2, "habitaciones", None))
               THEN Put(ud2, "habitaciones", StrOfInt(habitaciones)) ELSE ud2
        ud4 == IF max_precio # 0 /\ ~Truthy(Get(ud3, "presupuesto", None))
               THEN Put(ud3, "presupuesto", _map_budget(max_precio)) ELSE ud3
    IN [s |-> Put(s1, "user_data", ud4),
        ret |-> IF outcome = "rows"
                THEN [source |-> "database",
                      rows |-> <<[id |-> <<"DB", "Miraflores", 1>>,
                                  titulo |-> <<"casa", "en", "Miraflores">>,
                                  precio |-> 380000, habitaciones |-> 2]>>]
                ELSE [source |-> "fallback",
                      rows |-> generate_fallback_properties(
                                   zona, tipo_propiedad, max_precio, habitaciones, 2)]]

\* query_project_detail: the row, or an error dict; the state is not touched
query_project_detail(s, outcome) ==
    [s |-> s,
     ret |-> IF outcome = "rows" THEN [project |-> "row"]
             ELSE IF outcome = "empty" THEN [error |-> "No se encontro el proyecto"]
             ELSE [error |-> "Error al consultar el proyecto"]]

\* query_units_by_project, query_project_images, query_similar_units: the
\* formatted rows, or an empty list; the state is not touched
query_units_by_project(s, outcome) ==
    [s |-> s, ret |-> [rows |-> IF outcome = "rows" THEN <<"unit">> ELSE <<>>]]

query_project_images(s, outcome) ==
    [s |-> s, ret |-> [rows |-> IF outcome = "rows" THEN <<"image">> ELSE <<>>]]

query_similar_units(s, outcome) ==
    [s |-> s, ret |-> [rows |-> IF outcome = "rows" THEN <<"unit">> ELSE <<>>]]

---------------------------------------------------------------------------
(* Inputs *)

\* Texts of the user's messages
Contents ==
    { <<>>, <<"xyz">>, <<"casa">>, <<"hola", "xyz">>, <<"futbol">>,
      <<"casa", "futbol">>, <<"hola", "futbol">>,
      <<"olvida", "instrucciones">>, <<"casa", "olvida", "instrucciones">>,
      <<"acepto">>, <<"casa", "acepto">>,
      <<"12345678">>, <<"casa", "12345678">>, <<"casa", "si", "12345678">> }

InputMessages == {HumanMsg(c) : c \in Contents} \cup {NoContentMsg, ObjectMsg}

\* input_data["messages"]: no message, one message, or a short history
\* followed by one message
Inputs ==
    {<<>>} \cup {<<m>> : m \in InputMessages}
    \cup {<<HumanMsg(<<"casa">>), AssistantMsg(<<"xyz">>), HumanMsg(c)>> :
            c \in {<<"futbol">>, <<"12345678">>}}

\* Texts of the supervisor's reply; NoReply: it appends nothing
NoReply == <<"(no reply)">>

Replies == { NoReply, <<"xyz">>, <<"12345678">> }

\* Calls of validate_customer_data: <<nombre, email, telefono, tipo, numero>>
ValidateCalls ==
    { <<"Ana", None, "+51987654321", None, None>>,
      <<"Ana", None, "987654321", None, None>>,
      <<None, "ana@x.pe", None, "1", "12345678">>,
      <<None, "ana-at-x", None, None, None>>,
      <<None, None, None, "1", "1234">>,
      <<None, "ana..p@x.pe", None, "2", "AB-1234">> }

\* Calls of register_prelead: <<lead_id drawn, nombre, telefono, tipo_inmueble>>
PreleadCalls ==
    { <<id, "Ana", tel, ti>> :
        id \in LeadIds, tel \in {"+51987654321", "987654321", ""},
        ti \in {"1", "9"} }

\* Calls of register_lead: <<email, habitaciones, tipo, numero>>
LeadCalls ==
    { <<"ana@x.pe", "2", None, None>>,
      <<"ana@x.pe", "9", None, None>>,
      <<"ana@x.pe", "2", "1", "12345678">>,
      <<"ana-at-x", "2", None, None>>,
      <<"ana..p@x.pe", "2", None, None>>,
      <<"ana@x.pe", "2", "2", "AB-1234">> }

\* Calls of enrich_lead: <<credito_preaprobado, cuota_inicial, proposito>>
EnrichCalls ==
    { <<"SI", "NO", "vivienda_principal">>, <<"SI", "NO", "oficina">> }

\* Calls of sql_query_units: <<zona, tipo_propiedad, max_precio, habitaciones>>
SqlCalls ==
    { <<"Miraflores", "casa", 400000, 2>>, <<None, None, 0, 0>> }

\* The calls the supervisor draws from: all of them, or a few of each tool
AllCalls ==
    [validate |-> ValidateCalls, prelead |-> PreleadCalls, lead |-> LeadCalls,
     enrich |-> EnrichCalls]

FewCalls ==
    [validate |-> { <<"Ana", None, "+51987654321", None, None>>,
                    <<None, "ana-at-x", None, None, None>> },
     prelead |-> { <<"L10000", "Ana", "+51987654321", "1">>,
                   <<"L10000", "Ana", "987654321", "1">> },
     lead |-> { <<"ana@x.pe", "2", None, None>> },
     enrich |-> { <<"SI", "NO", "vivienda_principal">> }]

---------------------------------------------------------------------------
(* State *)

START == "__start__"

END == "__end__"

\* create_initial_state(), then initial_state["messages"] = messages (app.py)
create_initial_state ==
    [consent_obtained |-> FALSE, lead_registrado |-> FALSE,
     user_data |-> EmptyDict, preferencias |-> EmptyDict,
     interaction_history |-> <<>>, context |-> EmptyDict,
     guardrail_cache |-> EmptyDict, properties_shown |-> FALSE,
     interaction_count |-> 0]

NoCls == [kind |-> "none", flag |-> FALSE, types |-> <<>>]

Step(t, op, pre, db, ret, invoked, cls, crm) ==
    [thread |-> t, op |-> op, pre |-> pre, db |-> db, ret |-> ret,
     invoked |-> invoked, cls |-> IF invoked THEN cls ELSE NoCls, crm |-> crm]

Init ==
    /\ pc = [t \in Threads |-> START]
    /\ state = [t \in Threads |-> EmptyDict]
    /\ leads_db = EmptyDict
    /\ budget = [t \in Threads |-> 0]
    /\ last = Step(0, "init", EmptyDict, EmptyDict, EmptyDict, FALSE, NoCls, 0)
    /\ visited = [t \in Threads |-> <<>>]
    /\ crmCalls = [t \in Threads |-> 0]
    /\ blocked = [t \in Threads |-> "none"]
    /\ consentEver = [t \in Threads |-> FALSE]
    /\ args = <<>>
    /\ stale = [t \in Threads |-> FALSE]

\* inmobilia_agent resuming the thread's previous state instead of a fresh one
Invoke_resume_state(t, messages, toolCalls) ==
    /\ pc[t] \in {START, END}
    /\ state' = [state EXCEPT ![t] =
                    Put(IF pc[t] = START THEN create_initial_state ELSE @,
                        "messages", messages)]
    /\ pc' = [pc EXCEPT ![t] = "relevance_check"]
    /\ budget' = [budget EXCEPT ![t] = toolCalls]
    /\ visited' = [visited EXCEPT ![t] = <<>>]
    /\ crmCalls' = [crmCalls EXCEPT ![t] = 0]
    /\ blocked' = [blocked EXCEPT ![t] = "none"]
    /\ last' = Step(t, "invoke", EmptyDict, leads_db, EmptyDict, FALSE, NoCls, 0)
    /\ args' = <<>>
    /\ stale' = [stale EXCEPT ![t] = Get(state[t], "guardrail_triggered", FALSE)]
    /\ UNCHANGED <<leads_db, consentEver>>

\* inmobilia_agent: a turn starts from a fresh state holding the input's
\* messages, and the graph is entered at relevance_check
Invoke(t, messages, toolCalls) ==
    /\ pc[t] \in {START, END}
    /\ state' = [state EXCEPT ![t] = Put(create_initial_state, "messages", messages)]
    /\ pc' = [pc EXCEPT ![t] = "relevance_check"]
    /\ budget' = [budget EXCEPT ![t] = toolCalls]
    /\ visited' = [visited EXCEPT ![t] = <<>>]
    /\ crmCalls' = [crmCalls EXCEPT ![t] = 0]
    /\ blocked' = [blocked EXCEPT ![t] = "none"]
    /\ last' = Step(t, "invoke", EmptyDict, leads_db, EmptyDict, FALSE, NoCls, 0)
    /\ args' = <<>>
    /\ stale' = [stale EXCEPT ![t] = Get(state[t], "guardrail_triggered", FALSE)]
    /\ UNCHANGED <<leads_db, consentEver>>

\* A gate node followed by its edge: the returned dict is merged into the
\* state, and `next` maps the router's answer to the next node
GateStep(t, node, r, cls, next) ==
    LET merged == Merge(r.s, r.ret) IN
    /\ state' = [state EXCEPT ![t] = merged]
    /\ pc' = [pc EXCEPT ![t] = next[guardrail_router(merged)]]
    /\ visited' = [visited EXCEPT ![t] = Append(@, node)]
    /\ last' = Step(t, node, state[t], leads_db, r.ret, r.invoked, cls, 0)
    /\ blocked' = [blocked EXCEPT ![t] =
            IF r.ret.guardrail_triggered THEN node ELSE @]
    /\ consentEver' = [consentEver EXCEPT ![t] =
            @ \/ (node = "consent_check"
                  /\ ~Get(state[t], "consent_obtained", FALSE)
                  /\ Get(merged, "consent_obtained", FALSE))]
    /\ args' = <<>>
    /\ UNCHANGED <<leads_db, budget, crmCalls, stale>>

RelevanceEdges ==
    [generate_guardrail_response |-> "generate_guardrail_response",
     continue_normal_flow |-> "security_check"]

\* the security gate's rejection edge wired to the next gate
SecurityEdges_fallthrough ==
    [generate_guardrail_response |-> "consent_check",
     continue_normal_flow |-> "consent_check"]

SecurityEdges ==
    [generate_guardrail_response |-> "generate_guardrail_response",
     continue_normal_flow |-> "consent_check"]

\* graph.add_edge("consent_check", "agent_supervisor"): no router
ConsentEdges ==
    [generate_guardrail_response |-> "agent_supervisor",
     continue_normal_flow |-> "agent_supervisor"]

\* the PII gate's pass edge wired back to the first gate
PiiEdges_loop ==
    [generate_guardrail_response |-> "generate_guardrail_response",
     continue_normal_flow |-> "relevance_check"]

PiiEdges ==
    [generate_guardrail_response |-> "generate_guardrail_response",
     continue_normal_flow |-> END]

RelevanceCheck(t) ==
    /\ pc[t] = "relevance_check"
    /\ \E cls \in ClsBool :
         GateStep(t, "relevance_check", relevance_check(state[t], cls), cls,
                  RelevanceEdges)

SecurityCheck(t) ==
    /\ pc[t] = "security_check"
    /\ \E cls \in ClsBool :
         GateStep(t, "security_check", security_check(state[t], cls), cls,
                  SecurityEdges)

ConsentCheck(t) ==
    /\ pc[t] = "consent_check"
    /\ \E cls \in ClsBool :
         GateStep(t, "consent_check", consent_check(state[t], cls), cls,
                  ConsentEdges)

PiiCheck(t) ==
    /\ pc[t] = "pii_check"
    /\ \E cls \in ClsPII :
         GateStep(t, "pii_check", pii_check(state[t], cls), cls, PiiEdges)

GenerateGuardrailResponse(t) ==
    /\ pc[t] = "generate_guardrail_response"
    /\ state' = [state EXCEPT ![t] = generate_guardrail_response(state[t])]
    /\ pc' = [pc EXCEPT ![t] = END]
    /\ visited' = [visited EXCEPT ![t] = Append(@, "generate_guardrail_response")]
    /\ last' = Step(t, "generate_guardrail_response", state[t], leads_db,
                    EmptyDict, FALSE, NoCls, 0)
    /\ args' = <<>>
    /\ UNCHANGED <<leads_db, budget, crmCalls, blocked, consentEver, stale>>

\* A tool call made by the supervisor's agents
ToolStep(t, tool, a, r) ==
    /\ state' = [state EXCEPT ![t] = r.s]
    /\ args' = a
    /\ leads_db' = r.db
    /\ budget' = [budget EXCEPT ![t] = @ - 1]
    /\ visited' = [visited EXCEPT ![t] = Append(@, tool)]
    /\ crmCalls' = [crmCalls EXCEPT ![t] = @ + r.crm]
    /\ last' = Step(t, tool, state[t], leads_db, r.ret, FALSE, NoCls, r.crm)
    /\ UNCHANGED <<pc, blocked, consentEver, stale>>

ValidateCustomerData(t, calls) ==
    /\ pc[t] = "agent_supervisor" /\ budget[t] > 0
    /\ \E a \in calls.validate :
         LET v == validate_customer_data(state[t], a[1], a[2], a[3], a[4], a[5])
         IN ToolStep(t, "validate_customer_data", a,
                     ToolResult(v.s, leads_db, v.ret, 0))

RegisterPrelead(t, calls) ==
    /\ pc[t] = "agent_supervisor" /\ budget[t] > 0
    /\ \E a \in calls.prelead :
         ToolStep(t, "register_prelead", a,
                  register_prelead(state[t], leads_db, a[1], a[2], a[3], a[4],
                                   "1", "2", "WEB001"))

RegisterLead(t, calls) ==
    /\ pc[t] = "agent_supervisor" /\ budget[t] > 0
    /\ \E a \in calls.lead :
         ToolStep(t, "register_lead", a,
                  register_lead(state[t], leads_db, a[1], a[2], "1", "1", "1",
                                a[3], a[4]))

EnrichLead(t, calls) ==
    /\ pc[t] = "agent_supervisor" /\ budget[t] > 0
    /\ \E a \in calls.enrich :
         ToolStep(t, "enrich_lead", a,
                  enrich_lead(state[t], leads_db, a[1], a[2], a[3]))

SqlQueryUnits(t) ==
    /\ pc[t] = "agent_supervisor" /\ budget[t] > 0
    /\ \E a \in SqlCalls, outcome \in DbOutcomes :
         LET r == sql_query_units(state[t], a[1], a[2], a[3], a[4], outcome)
         IN ToolStep(t, "sql_query_units", Append(a, outcome),
                     ToolResult(r.s, leads_db, r.ret, 0))

QueryProjectDetail(t) ==
    /\ pc[t] = "agent_supervisor" /\ budget[t] > 0
    /\ \E outcome \in DbOutcomes :
         LET r == query_project_detail(state[t], outcome)
         IN ToolStep(t, "query_project_detail", <<outcome>>,
                     ToolResult(r.s, leads_db, r.ret, 0))

QueryUnitsByProject(t) ==
    /\ pc[t] = "agent_supervisor" /\ budget[t] > 0
    /\ \E outcome \in DbOutcomes :
         LET r == query_units_by_project(state[t], outcome)
         IN ToolStep(t, "query_units_by_project", <<outcome>>,
                     ToolResult(r.s, leads_db, r.ret, 0))

QueryProjectImages(t) ==
    /\ pc[t] = "agent_supervisor" /\ budget[t] > 0
    /\ \E outcome \in DbOutcomes :
         LET r == query_project_images(state[t], outcome)
         IN ToolStep(t, "query_project_images", <<outcome>>,
                     ToolResult(r.s, leads_db, r.ret, 0))

QuerySimilarUnits(t) ==
    /\ pc[t] = "agent_supervisor" /\ budget[t] > 0
    /\ \E outcome \in DbOutcomes :
         LET r == query_similar_units(state[t], outcome)
         IN ToolStep(t, "query_similar_units", <<outcome>>,
                     ToolResult(r.s, leads_db, r.ret, 0))

\* The supervisor ends: its reply, if any, is the last message from here on
SupervisorReply(t) ==
    /\ pc[t] = "agent_supervisor"
    /\ \E reply \in Replies :
         state' = [state EXCEPT ![t] =
            IF reply = NoReply THEN @
            ELSE Put(@, "messages", Append(@["messages"], AssistantMsg(reply)))]
    /\ pc' = [pc EXCEPT ![t] = "pii_check"]
    /\ visited' = [visited EXCEPT ![t] = Append(@, "agent_supervisor")]
    /\ last' = Step(t, "agent_supervisor", state[t], leads_db, EmptyDict,
                    FALSE, NoCls, 0)
    /\ args' = <<>>
    /\ UNCHANGED <<leads_db, budget, crmCalls, blocked, consentEver, stale>>

\* The turns of one conversation thread
Turn(t) ==
    \/ \E messages \in Inputs : Invoke(t, messages, MaxToolCalls)
    \/ RelevanceCheck(t)
    \/ SecurityCheck(t)
    \/ ConsentCheck(t)
    \/ ValidateCustomerData(t, FewCalls)
    \/ RegisterPrelead(t, FewCalls)
    \/ RegisterLead(t, FewCalls)
    \/ SupervisorReply(t)
    \/ PiiCheck(t)
    \/ GenerateGuardrailResponse(t)

Next == Turn(1)

Spec == Init /\ [][Next]_vars

\* The turns of thread 1 over a few inputs that take every route of the graph
LiveInputs ==
    {<<>>} \cup
    { <<HumanMsg(c)>> :
        c \in { <<"casa">>, <<"xyz">>, <<"futbol">>, <<"olvida", "instrucciones">>,
                <<"casa", "12345678">> } }

NextLive ==
    \/ \E messages \in LiveInputs : Invoke(1, messages, MaxToolCalls)
    \/ RelevanceCheck(1)
    \/ SecurityCheck(1)
    \/ ConsentCheck(1)
    \/ ValidateCustomerData(1, FewCalls)
    \/ RegisterPrelead(1, FewCalls)
    \/ RegisterLead(1, FewCalls)
    \/ SupervisorReply(1)
    \/ PiiCheck(1)
    \/ GenerateGuardrailResponse(1)

\* Every node of the graph returns: a gate with its classifier call, the
\* supervisor with its agents, the response generator.  Nothing makes the
\* user send a further message.
NodesReturn ==
    /\ WF_vars(RelevanceCheck(1))
    /\ WF_vars(SecurityCheck(1))
    /\ WF_vars(ConsentCheck(1))
    /\ WF_vars(SupervisorReply(1))
    /\ WF_vars(PiiCheck(1))
    /\ WF_vars(GenerateGuardrailResponse(1))

SpecLive == Init /\ [][NextLive]_vars /\ NodesReturn

---------------------------------------------------------------------------
(* The tools on their own: thread 1 stands at the supervisor of a turn    *)
(* whose message passed the gates (no classifier answer parsed, so no     *)
(* event logged), and the supervisor makes up to MaxToolSteps tool calls. *)

InitTools ==
    /\ pc = [t \in Threads |-> IF t = 1 THEN "agent_supervisor" ELSE START]
    /\ state = [t \in Threads |->
                  IF t = 1
                  THEN Merge(Put(create_initial_state, "messages",
                                 <<HumanMsg(<<"casa">>)>>), Allowed)
                  ELSE EmptyDict]
    /\ leads_db = EmptyDict
    /\ budget = [t \in Threads |-> IF t = 1 THEN MaxToolSteps ELSE 0]
    /\ last = Step(0, "init", EmptyDict, EmptyDict, EmptyDict, FALSE, NoCls, 0)
    /\ visited = [t \in Threads |->
                    IF t = 1
                    THEN <<"relevance_check", "security_check", "consent_check">>
                    ELSE <<>>]
    /\ crmCalls = [t \in Threads |-> 0]
    /\ blocked = [t \in Threads |-> "none"]
    /\ consentEver = [t \in Threads |-> FALSE]
    /\ args = <<>>
    /\ stale = [t \in Threads |-> FALSE]

NextTools ==
    \/ ValidateCustomerData(1, AllCalls)
    \/ RegisterPrelead(1, AllCalls)
    \/ RegisterLead(1, AllCalls)
    \/ EnrichLead(1, AllCalls)
    \/ SqlQueryUnits(1)
    \/ QueryProjectDetail(1)
    \/ QueryUnitsByProject(1)
    \/ QueryProjectImages(1)
    \/ QuerySimilarUnits(1)

SpecTools == InitTools /\ [][NextTools]_vars

---------------------------------------------------------------------------
(* The CRM tools against the CRM store.  crm_api is a dict in the memory of *)
(* the process: thread 1 stands at the supervisor with the state a          *)
(* registration left, and the store either still holds the record or has    *)
(* been created anew since.                                                 *)

\* The tool state after register_prelead, and after register_lead on top
PreleadDone ==
    register_prelead(Merge(Put(create_initial_state, "messages",
                               <<HumanMsg(<<"casa">>)>>), Allowed),
                     EmptyDict, "L10000", "Ana", "+51987654321", "1",
                     "1", "2", "WEB001")

LeadDone ==
    register_lead(PreleadDone.s, PreleadDone.db, "ana@x.pe", "2", "1", "1", "1",
                  None, None)

CrmStates ==
    UNION { { [s |-> r.s, db |-> r.db], [s |-> r.s, db |-> EmptyDict] } :
              r \in {PreleadDone, LeadDone} }

InitCrm ==
    /\ pc = [t \in Threads |-> IF t = 1 THEN "agent_supervisor" ELSE START]
    /\ \E c \in CrmStates :
         /\ state = [t \in Threads |-> IF t = 1 THEN c.s ELSE EmptyDict]
         /\ leads_db = c.db
    /\ budget = [t \in Threads |-> IF t = 1 THEN MaxToolSteps ELSE 0]
    /\ last = Step(0, "init", EmptyDict, EmptyDict, EmptyDict, FALSE, NoCls, 0)
    /\ visited = [t \in Threads |->
                    IF t = 1
                    THEN <<"relevance_check", "security_check", "consent_check">>
                    ELSE <<>>]
    /\ crmCalls = [t \in Threads |-> 0]
    /\ blocked = [t \in Threads |-> "none"]
    /\ consentEver = [t \in Threads |-> FALSE]
    /\ args = <<>>
    /\ stale = [t \in Threads |-> FALSE]

NextCrm ==
    \/ RegisterPrelead(1, AllCalls)
    \/ RegisterLead(1, AllCalls)
    \/ EnrichLead(1, AllCalls)

SpecCrm == InitCrm /\ [][NextCrm]_vars

---------------------------------------------------------------------------
(* Two conversation threads at their supervisors at the same time, each    *)
(* with its own state dict, both calling the one crm_api of the process.   *)
(* Tool calls are atomic; the threads interleave between them.             *)

\* The calls either thread draws from; register_prelead draws any id
ThreadCalls ==
    [validate |-> { <<"Ana", None, "+51987654321", None, None>> },
     prelead |-> { <<id, "Ana", "+51987654321", "1">> : id \in LeadIds },
     lead |-> { <<"ana@x.pe", "2", None, None>> },
     enrich |-> { <<"SI", "NO", "vivienda_principal">> }]

InitThreads ==
    /\ pc = [t \in Threads |-> "agent_supervisor"]
    /\ state = [t \in Threads |->
                  Merge(Put(create_initial_state, "messages",
                            <<HumanMsg(<<"casa">>)>>), Allowed)]
    /\ leads_db = EmptyDict
    /\ budget = [t \in Threads |-> MaxToolSteps]
    /\ last = Step(0, "init", EmptyDict, EmptyDict, EmptyDict, FALSE, NoCls, 0)
    /\ visited = [t \in Threads |->
                    <<"relevance_check", "security_check", "consent_check">>]
    /\ crmCalls = [t \in Threads |-> 0]
    /\ blocked = [t \in Threads |-> "none"]
    /\ consentEver = [t \in Threads |-> FALSE]
    /\ args = <<>>
    /\ stale = [t \in Threads |-> FALSE]

NextThreads ==
    \E t \in Threads :
        \/ RegisterPrelead(t, ThreadCalls)
        \/ RegisterLead(t, ThreadCalls)
        \/ EnrichLead(t, ThreadCalls)

SpecThreads == InitThreads /\ [][NextThreads]_vars

---------------------------------------------------------------------------
(* generate_guardrail_response on its own: thread 1 stands at the node with *)
(* a state drawn from ResponseStates.                                      *)

\* Values of state["reason"]; NoReason: the key is absent
NoReason == <<"(no reason)">>

Reasons ==
    { NoReason, <<>>, <<"xyz">>, <<"no", "relacionado">>,
      ReasonRelevancePattern, ReasonRelevanceLLM,
      ReasonSecurityPattern, ReasonSecurityLLM,
      ReasonPII(<<"DNI">>), ReasonPII(<<"numero de seguridad social">>) }

\* Values of state["messages"]; NoMessages: the key is absent
NoMessages == <<[absent |-> TRUE]>>

MessageLists ==
    { NoMessages, <<>>, <<HumanMsg(<<"casa">>)>>,
      <<HumanMsg(<<"casa">>), AssistantMsg(<<"xyz">>)>> }

\* state["guardrail_cache"]: the key absent, an empty cache, a cache with
\* one event
Caches == {"absent", "empty", "events"}

CacheOf(cache) ==
    IF cache = "empty" THEN EmptyDict
    ELSE [events |-> <<[agent |-> "pii_check", triggered |-> TRUE,
                        info |-> [contains_pii |-> TRUE,
                                  detected_pii_types |-> <<"email">>],
                        time |-> ""]>>]

ResponseState(reason, messages, cache) ==
    (IF reason = NoReason THEN EmptyDict
     ELSE [guardrail_triggered |-> TRUE, reason |-> reason])
    @@ (IF messages = NoMessages THEN EmptyDict ELSE [messages |-> messages])
    @@ (IF cache = "absent" THEN EmptyDict
        ELSE [guardrail_cache |-> CacheOf(cache)])
    @@ [consent_obtained |-> FALSE]

ResponseStates ==
    { ResponseState(r, m, c) : r \in Reasons, m \in MessageLists, c \in Caches }

InitResponse ==
    /\ pc = [t \in Threads |->
                IF t = 1 THEN "generate_guardrail_response" ELSE START]
    /\ state \in { [t \in Threads |-> IF t = 1 THEN s ELSE EmptyDict] :
                      s \in ResponseStates }
    /\ leads_db = EmptyDict
    /\ budget = [t \in Threads |-> 0]
    /\ last = Step(0, "init", EmptyDict, EmptyDict, EmptyDict, FALSE, NoCls, 0)
    /\ visited = [t \in Threads |-> <<>>]
    /\ crmCalls = [t \in Threads |-> 0]
    /\ blocked = [t \in Threads |-> "none"]
    /\ consentEver = [t \in Threads |-> FALSE]
    /\ args = <<>>
    /\ stale = [t \in Threads |-> FALSE]

NextResponse == GenerateGuardrailResponse(1)

SpecResponse == InitResponse /\ [][NextResponse]_vars

---------------------------------------------------------------------------
(* Properties *)

Gates == {"relevance_check", "security_check", "consent_check", "pii_check"}

Consent(s) == Get(s, "consent_obtained", FALSE)

\* The fixed sequence of the pipeline
NextInSequence(node) ==
    CASE node = "relevance_check" -> "security_check"
      [] node = "security_check" -> "consent_check"
      [] node = "consent_check" -> "agent_supervisor"
      [] node = "agent_supervisor" -> "pii_check"
      [] node = "pii_check" -> END

\* C1: every turn starts at relevance_check, and after the relevance, security
\* and PII gates control is at generate_guardrail_response exactly when the
\* gate returned guardrail_triggered = True, and otherwise at the next node of
\* the sequence relevance -> security -> consent -> supervisor -> pii -> END.
C1_Routing ==
    \A t \in Threads :
      /\ visited[t] # <<>> => visited[t][1] = "relevance_check"
      /\ (last.thread = t /\ last.op = "invoke") => pc[t] = "relevance_check"
      /\ (last.thread = t
          /\ last.op \in {"relevance_check", "security_check", "pii_check"})
         => pc[t] = IF last.ret.guardrail_triggered
                    THEN "generate_guardrail_response"
                    ELSE NextInSequence(last.op)

\* A turn ran the whole sequence and its PII gate sent it to the rejection
C1_Witness ==
    /\ pc[1] = END
    /\ visited[1] = <<"relevance_check", "security_check", "consent_check",
                      "agent_supervisor", "pii_check",
                      "generate_guardrail_response">>

\* C2: in a turn whose relevance or security gate triggered, the only nodes
\* run are the gates up to that one and then generate_guardrail_response:
\* no later gate, no supervisor, no tool call, no CRM call, user_data untouched.
C2_ShortCircuit ==
    \A t \in Threads :
      blocked[t] \in {"relevance_check", "security_check"} =>
        /\ pc[t] \in {"generate_guardrail_response", END}
        /\ visited[t] =
             (IF blocked[t] = "relevance_check"
              THEN <<"relevance_check">>
              ELSE <<"relevance_check", "security_check">>)
             \o (IF pc[t] = END THEN <<"generate_guardrail_response">> ELSE <<>>)
        /\ crmCalls[t] = 0
        /\ Get(state[t], "user_data", EmptyDict) = EmptyDict

\* A turn blocked by the security gate has ended, in a process whose CRM
\* already holds a lead from an earlier turn
C2_Witness ==
    /\ blocked[1] = "security_check"
    /\ pc[1] = END
    /\ leads_db # EmptyDict

\* C3: when the classifier was called and raised, or its answer did not parse
\* into the gate's schema, the relevance, security and PII gates return
\* guardrail_triggered = False and the consent gate leaves consent_obtained
\* as it was.
C3_FailOpen ==
    (last.op \in Gates /\ last.invoked /\ last.cls.kind # "ok") =>
        /\ last.op # "consent_check" => ~last.ret.guardrail_triggered
        /\ last.op = "consent_check"
           => Consent(state[last.thread]) = Consent(last.pre)

\* The PII gate called the classifier, which raised
C3_Witness ==
    /\ last.op = "pii_check"
    /\ last.invoked
    /\ last.cls.kind = "raise"

\* The text the gates read: the content of the last message
LastText(s) ==
    LET messages == Get(s, "messages", <<>>) IN
    IF messages = <<>> \/ ~IsMapping(messages[Len(messages)]) THEN <<>>
    ELSE Get(messages[Len(messages)], "content", <<>>)

\* C4: no consent or PII gate evaluation sets consent_obtained back to false,
\* and once a consent gate of the session has recognised consent every later
\* PII gate evaluation of that session allows without calling the classifier.
C4_ConsentMonotone ==
    \A t \in Threads :
      (last.thread = t /\ last.op \in {"consent_check", "pii_check"}) =>
        /\ Consent(last.pre) => Consent(state[t])
        /\ (last.op = "pii_check" /\ consentEver[t])
           => (~last.ret.guardrail_triggered /\ ~last.invoked)

\* What holds of the gates within one turn: a step of a running turn never
\* resets consent_obtained, and a PII gate that finds it set allows without
\* the classifier and ends the turn.
C4_WithinTurn ==
    [][\A t \in Threads :
         (Consent(state[t]) /\ pc[t] \notin {START, END}) =>
           /\ Consent(state'[t])
           /\ (pc[t] = "pii_check" /\ pc'[t] # pc[t])
              => (~last'.ret.guardrail_triggered /\ ~last'.invoked
                  /\ pc'[t] = END)]_vars

\* C5: once the consent gate has recognised consent, consent_obtained = True
\* is what the PII gate of that turn reads, what every later turn of the
\* thread starts from, and the PII gate lets those turns' messages pass.
C5_ConsentPersists ==
    \A t \in Threads :
      (consentEver[t] /\ last.thread = t) =>
        /\ last.op = "pii_check"
           => (Consent(last.pre) /\ ~last.ret.guardrail_triggered)
        /\ last.op = "invoke" => Consent(state[t])

\* C6: the consent gate returns guardrail_triggered = False on every path,
\* and control goes from consent_check to the supervisor, never to the
\* rejection response.
C6_ConsentNeverBlocks ==
    \A t \in Threads :
      (last.thread = t /\ last.op = "consent_check") =>
        /\ ~last.ret.guardrail_triggered
        /\ pc[t] = "agent_supervisor"

\* The classifier was asked and found no consent, and the turn went on
C6_Witness ==
    /\ last.op = "consent_check"
    /\ last.cls.kind = "ok" /\ ~last.cls.flag
    /\ pc[1] = "agent_supervisor"

C8_DomainAllows ==
    (last.op = "relevance_check" /\ MatchesInmobiliario(LastText(last.pre))) =>
        (~last.ret.guardrail_triggered /\ ~last.invoked)

\* A message matching both a domain and an off-topic pattern was evaluated
C8_Witness ==
    /\ last.op = "relevance_check"
    /\ MatchesInmobiliario(LastText(last.pre))
    /\ MatchesOffTopic(LastText(last.pre))
    /\ pc[1] = "security_check"

\* C9: with an empty message list each of the four gates returns
\* guardrail_triggered = False, does not call the classifier, and changes
\* neither consent_obtained nor the guardrail cache.
C9_EmptyMessagesAllow ==
    (last.op \in Gates /\ Get(last.pre, "messages", <<>>) = <<>>) =>
        /\ ~last.ret.guardrail_triggered
        /\ ~last.invoked
        /\ Consent(state[last.thread]) = Consent(last.pre)
        /\ Get(state[last.thread], "guardrail_cache", EmptyDict)
           = Get(last.pre, "guardrail_cache", EmptyDict)

\* A turn with no message at all ran the four gates and ended
C9_Witness ==
    /\ pc[1] = END
    /\ last.op = "pii_check"
    /\ Get(last.pre, "messages", <<>>) = <<>>
    /\ visited[1] = <<"relevance_check", "security_check", "consent_check",
                      "agent_supervisor", "pii_check">>

\* C10: register_lead on a state whose user_data has no lead_id returns the
\* error result of the missing prelead, calls no CRM operation, and leaves the
\* state and the CRM store as they were.
C10_LeadNeedsPrelead ==
    (last.op = "register_lead"
     /\ "lead_id" \notin DOMAIN Get(last.pre, "user_data", EmptyDict)) =>
        /\ last.ret.status = "error"
        /\ last.ret.errors = <<"Prelead no encontrado">>
        /\ last.crm = 0
        /\ state[last.thread] = last.pre
        /\ leads_db = last.db

\* register_lead was refused on a state that already holds validated data
\* but no prelead
C10_Witness ==
    /\ last.op = "register_lead"
    /\ "lead_id" \notin DOMAIN Get(last.pre, "user_data", EmptyDict)
    /\ "nombre" \in DOMAIN Get(last.pre, "user_data", EmptyDict)
    /\ last.ret.status = "error"

\* The stages of a lead, in their order
StageRank(stage) ==
    CASE stage = "prelead" -> 1
      [] stage = "lead" -> 2
      [] stage = "enriched_lead" -> 3
      [] OTHER -> 0

LeadStage(s) == Get(Get(s, "user_data", EmptyDict), "lead_stage", "none")

CrmTools == {"register_prelead", "register_lead", "enrich_lead"}

\* C11: a call of register_prelead, register_lead or enrich_lead never moves
\* user_data.lead_stage, nor the stage of a record of the CRM store, backwards
\* in the order prelead < lead < enriched_lead.
C11_NoDemotion ==
    last.op \in CrmTools =>
        /\ StageRank(LeadStage(state[last.thread])) >= StageRank(LeadStage(last.pre))
        /\ \A id \in DOMAIN last.db :
             StageRank(leads_db[id].stage) >= StageRank(last.db[id].stage)

\* The result of a tool reports an invalid input: a failed validation, or an
\* error other than the missing prelead and the CRM's refusal
InvalidInputError(ret) ==
    IF "valid" \in DOMAIN ret THEN ~ret.valid
    ELSE /\ ret.status = "error"
         /\ ret.errors \notin {<<"Prelead no encontrado">>, <<"CRM update_lead fallo">>}

\* C12: when validate_customer_data, register_prelead or register_lead returns
\* an error because an input is invalid, the state after the call equals the
\* state before it.
C12_InvalidInputKeepsState ==
    (/\ last.op \in {"validate_customer_data", "register_prelead", "register_lead"}
     /\ InvalidInputError(last.ret))
    => state[last.thread] = last.pre

\* C13: a register_prelead call whose phone is not +51 followed by nine
\* digits returns status error with the invalid-phone error in its list,
\* leaves user_data unchanged and does not call the CRM.
C13_BadPhoneRejected ==
    (last.op = "register_prelead" /\ ~validate_phone(args[3])) =>
        /\ last.ret.status = "error"
        /\ \E i \in 1..Len(last.ret.errors) : last.ret.errors[i] = "Telefono invalido."
        /\ Get(state[last.thread], "user_data", EmptyDict)
           = Get(last.pre, "user_data", EmptyDict)
        /\ last.crm = 0
        /\ leads_db = last.db

\* The last message of a state, or an empty dict when there is none
LastMessage(s) ==
    LET messages == Get(s, "messages", <<>>) IN
    IF messages = <<>> THEN EmptyDict ELSE messages[Len(messages)]

\* C14: when the PII gate triggered, generate_guardrail_response sets
\* guardrail_cache.awaiting_personal_data and appends the consent request.
C14_PiiAsksConsent ==
    \A t \in Threads :
      (/\ last.thread = t /\ last.op = "generate_guardrail_response"
       /\ blocked[t] = "pii_check") =>
        /\ Get(Get(state[t], "guardrail_cache", EmptyDict),
               "awaiting_personal_data", FALSE)
        /\ LastMessage(state[t]) = AssistantMsg(ResponseConsent)

Events(s) == Get(Get(s, "guardrail_cache", EmptyDict), "events", <<>>)

\* C15: a security, PII or consent gate evaluation that invoked the classifier
\* appends exactly one entry to guardrail_cache.events; an evaluation that
\* did not invoke it, and every relevance evaluation, appends none.
C15_OneEventPerClassifierCall ==
    last.op \in Gates =>
        /\ Len(Events(state[last.thread])) =
             Len(Events(last.pre))
             + (IF last.invoked /\ last.op # "relevance_check" THEN 1 ELSE 0)
        /\ SubSeq(Events(state[last.thread]), 1, Len(Events(last.pre)))
             = Events(last.pre)

RoutingGates == {"relevance_check", "security_check", "pii_check"}

\* C16: no node of a turn finds a guardrail_triggered = True that an earlier
\* turn or an earlier gate left in the state, and after a gate that allowed
\* the message the flag is False and control is not at the rejection response.
C16_NoStaleTrigger ==
    \A t \in Threads :
      /\ pc[t] \in Gates \cup {"agent_supervisor"}
         => ~Get(state[t], "guardrail_triggered", FALSE)
      /\ (last.thread = t /\ last.op \in RoutingGates
          /\ ~last.ret.guardrail_triggered)
         => /\ pc[t] = NextInSequence(last.op)
            /\ ~Get(state[t], "guardrail_triggered", FALSE)

\* The turn before ended rejected, and in this turn the security gate allowed
\* the message and control went on to the consent gate
C16_Witness ==
    /\ stale[1]
    /\ last.op = "security_check"
    /\ ~last.ret.guardrail_triggered
    /\ pc[1] = "consent_check"

\* The phrases generate_guardrail_response knows a cause by
KnownCause(reason) ==
    \/ Contains(reason, <<"no", "esta", "relacionada">>)
    \/ Contains(reason, <<"no", "relacionado">>)
    \/ Contains(reason, <<"seguridad">>)
    \/ Contains(reason, <<"riesgo">>)
    \/ Contains(reason, <<"informacion", "personal">>)
    \/ Contains(reason, <<"sin", "consentimiento">>)

\* C17: whatever the reason (known cause, unknown, empty or absent) and also
\* when the state has no messages key, generate_guardrail_response leaves the
\* earlier messages as they were and appends exactly one assistant message;
\* a reason matching no known cause is answered with the generic message.
C17_ResponseAppendsOne ==
    last.op = "generate_guardrail_response" =>
        LET before == Get(last.pre, "messages", <<>>)
            after == Get(state[last.thread], "messages", <<>>)
        IN /\ "messages" \in DOMAIN state[last.thread]
           /\ Len(after) = Len(before) + 1
           /\ SubSeq(after, 1, Len(before)) = before
           /\ after[Len(after)].role = "assistant"
           /\ ~KnownCause(Get(last.pre, "reason", <<>>))
              => after[Len(after)] = AssistantMsg(ResponseGeneric)

\* The generator ran on a state with neither a reason nor a messages key
C17_Witness ==
    /\ last.op = "generate_guardrail_response"
    /\ "reason" \notin DOMAIN last.pre
    /\ "messages" \notin DOMAIN last.pre
    /\ state[1]["messages"] = <<AssistantMsg(ResponseGeneric)>>

UserData(s) == Get(s, "user_data", EmptyDict)

\* C18: every key of user_data stays in user_data, over each tool call and
\* from one turn of a thread to the next.
C18_UserDataNeverShrinks ==
    [][\A t \in Threads :
         DOMAIN UserData(state[t]) \subseteq DOMAIN UserData(state'[t])]_vars

\* What holds of the tools: a tool call removes no key of user_data.
C18_ToolsKeepKeys ==
    last.thread = 1 =>
        DOMAIN UserData(last.pre) \subseteq DOMAIN UserData(state[1])

SearchTools ==
    {"sql_query_units", "query_project_detail", "query_units_by_project",
     "query_project_images", "query_similar_units"}

InteractionCount(s) == Get(s, "interaction_count", 0)

\* C19: interaction_count grows by exactly one with each call of a property
\* search tool, whatever the query returns, and no other tool call lowers it.
C19_CountsEverySearch ==
    last.thread = 1 =>
        /\ last.op \in SearchTools
           => InteractionCount(state[1]) = InteractionCount(last.pre) + 1
        /\ InteractionCount(state[1]) >= InteractionCount(last.pre)

PropertiesShown(s) == Get(s, "properties_shown", FALSE)

\* The tool call that ran last was a property search whose query succeeded
SearchSucceeded ==
    last.op \in SearchTools /\ args[Len(args)] # "fail"

\* C20: properties_shown is never set back to false, is true after a property
\* search that succeeds, and stays false over every other call for as long as
\* no property search has succeeded.
C20_ShownOnFirstSuccess ==
    last.thread = 1 =>
        /\ PropertiesShown(last.pre) => PropertiesShown(state[1])
        /\ SearchSucceeded => PropertiesShown(state[1])
        /\ (~PropertiesShown(last.pre) /\ ~SearchSucceeded)
           => ~PropertiesShown(state[1])

LeadRegistered(s) == Get(s, "lead_registrado", FALSE)

\* C21: lead_registrado is true after a register_prelead call that returned
\* status success, and false for as long as the CRM holds no record.
C21_RegisteredAfterPrelead ==
    last.thread = 1 =>
        /\ (last.op = "register_prelead" /\ last.ret.status = "success")
           => LeadRegistered(state[1])
        /\ leads_db = EmptyDict => ~LeadRegistered(state[1])

\* C22: a property search whose query returns no row or fails returns a
\* non-empty list of fallback listings, never an empty list or an error value.
C22_FallbackListings ==
    (last.thread = 1 /\ last.op \in SearchTools /\ ~(args[Len(args)] = "rows"))
    => /\ "error" \notin DOMAIN last.ret
       /\ "rows" \in DOMAIN last.ret
       /\ Len(last.ret.rows) > 0

\* The CRM was called with a lead id its store does not hold
CrmRejected ==
    /\ last.op \in {"register_lead", "enrich_lead"}
    /\ last.crm = 1
    /\ UserData(last.pre)["lead_id"] \notin DOMAIN last.db

\* C23: when the CRM rejects the update or enrich call, which the tool turns
\* into an exception of its own, register_lead and enrich_lead return status
\* error, lead_stage keeps its value and the store is left as it was.
C23_CrmRejectionIsError ==
    (last.thread = 1 /\ CrmRejected)
    => /\ last.ret.status = "error"
       /\ LeadStage(state[1]) = LeadStage(last.pre)
       /\ leads_db = last.db

\* register_lead had its update refused by the CRM
C23_Witness ==
    /\ last.thread = 1 /\ CrmRejected /\ last.op = "register_lead"
    /\ last.ret.status = "error"
    /\ LeadStage(state[1]) = "prelead"

\* enrich_lead had its call refused by the CRM
C23_WitnessEnrich ==
    /\ last.thread = 1 /\ CrmRejected /\ last.op = "enrich_lead"
    /\ last.ret.status = "error"
    /\ LeadStage(state[1]) = "lead"

\* The CRM record of the lead whose id thread u holds is the same in db2 as
\* in db1
SameLeadRecord(u, db1, db2) ==
    LET ud == UserData(state[u]) IN
    ("lead_id" \in DOMAIN ud /\ ud["lead_id"] \in DOMAIN db1)
    => db2[ud["lead_id"]] = db1[ud["lead_id"]]

\* C24: a step of one thread changes neither the state of another thread nor
\* the CRM record of the other thread's lead, and register_prelead leaves
\* every record the store already holds as it is.
C24_ThreadsIsolated ==
    [][/\ \A u \in Threads :
            last'.thread # u
            => (state'[u] = state[u] /\ SameLeadRecord(u, leads_db, leads_db'))
       /\ last'.op = "register_prelead"
          => \A id \in DOMAIN leads_db : leads_db'[id] = leads_db[id]]_vars

\* What holds of the threads: no step of a thread changes another thread's
\* state dict.
C24_StatesApart ==
    [][\A u \in Threads : last'.thread # u => state'[u] = state[u]]_vars

LeadStages == {"lead", "enriched_lead"}

\* C25: enrich_lead succeeds only on a lead that register_lead has brought to
\* stage lead (or that is enriched already), in user_data and in the CRM, and
\* an enrich_lead that returns an error leaves user_data as it was.
C25_EnrichNeedsLead ==
    (last.thread = 1 /\ last.op = "enrich_lead")
    => /\ last.ret.status = "success"
          => /\ LeadStage(last.pre) \in LeadStages
             /\ last.db[UserData(last.pre)["lead_id"]].stage \in LeadStages
       /\ last.ret.status = "error"
          => UserData(state[1]) = UserData(last.pre)

\* What holds of enrich_lead: it succeeds only after some register_lead call
\* of the session succeeded, and its error results leave user_data alone.
C25_EnrichAfterSomeLead ==
    (last.thread = 1 /\ last.op = "enrich_lead")
    => /\ last.ret.status = "success"
          => "tiempo_compra" \in DOMAIN UserData(last.pre)
       /\ last.ret.status = "error"
          => UserData(state[1]) = UserData(last.pre)

AwaitingPersonalData(s) ==
    Get(Get(s, "guardrail_cache", EmptyDict), "awaiting_personal_data", FALSE)

\* C26: after the relevance gate triggered, generate_guardrail_response appends
\* the specialist redirect; after the security gate triggered, the security
\* message; in neither case is awaiting_personal_data set.
C26_MessageMatchesGate ==
    (last.thread = 1 /\ last.op = "generate_guardrail_response")
    => /\ blocked[1] = "relevance_check"
          => /\ LastMessage(state[1]) = AssistantMsg(ResponseRelevance)
             /\ ~AwaitingPersonalData(state[1])
       /\ blocked[1] = "security_check"
          => /\ LastMessage(state[1]) = AssistantMsg(ResponseSecurity)
             /\ ~AwaitingPersonalData(state[1])

\* What holds: the pattern trigger of the relevance gate and the classifier
\* trigger of the security gate get their own message, and no relevance or
\* security trigger sets awaiting_personal_data.
C26_PhrasedReasons ==
    (last.thread = 1 /\ last.op = "generate_guardrail_response"
     /\ blocked[1] \in {"relevance_check", "security_check"})
    => /\ ~AwaitingPersonalData(state[1])
       /\ Get(last.pre, "reason", <<>>) = ReasonRelevancePattern
          => LastMessage(state[1]) = AssistantMsg(ResponseRelevance)
       /\ Get(last.pre, "reason", <<>>) = ReasonSecurityLLM
          => LastMessage(state[1]) = AssistantMsg(ResponseSecurity)

\* The gate that ran last appended an event to guardrail_cache.events
EventAppended ==
    /\ last.op \in Gates
    /\ Len(Events(state[last.thread])) = Len(Events(last.pre)) + 1

\* C27: the event a gate appends carries, as its triggered field, the
\* guardrail_triggered value the gate returned from that evaluation.
C27_EventRecordsDecision ==
    EventAppended
    => LET events == Events(state[last.thread]) IN
       events[Len(events)].triggered = last.ret.guardrail_triggered

\* What holds: the events of the security and the PII gate carry the gate's
\* decision.
C27_SecurityAndPiiEvents ==
    (EventAppended /\ last.op # "consent_check")
    => LET events == Events(state[last.thread]) IN
       events[Len(events)].triggered = last.ret.guardrail_triggered

GraphNodes == Gates \cup {"generate_guardrail_response", "agent_supervisor"}

\* No node of the graph has run twice in the turn
NodesOnce ==
    \A n \in GraphNodes :
        Cardinality({i \in DOMAIN visited[1] : visited[1][i] = n}) <= 1

\* C28: a turn that stands at relevance_check reaches the end of the graph,
\* and no gate and no response generator runs twice within a turn.
C28_TurnTerminates ==
    /\ [] NodesOnce
    /\ (pc[1] = "relevance_check") ~> (pc[1] = END)

\* a turn that went through every gate has ended
C28_Witness ==
    /\ pc[1] = END
    /\ NodesOnce
    /\ \A n \in Gates : \E i \in DOMAIN visited[1] : visited[1][i] = n

IsPrefix(a, b) == Len(a) <= Len(b) /\ SubSeq(b, 1, Len(a)) = a

Messages(s) == Get(s, "messages", <<>>)

\* C29: over each gate (with its router) and over the response generator,
\* the messages and the events before the step are a prefix of those after.
C29_AppendOnly ==
    (last.op \in Gates \cup {"generate_guardrail_response"})
    => /\ IsPrefix(Messages(last.pre), Messages(state[last.thread]))
       /\ IsPrefix(Events(last.pre), Events(state[last.thread]))

\* a gate appended a second event of the turn
C29_Witness ==
    /\ last.op \in Gates
    /\ Len(Events(last.pre)) >= 1
    /\ Len(Events(state[last.thread])) = Len(Events(last.pre)) + 1
    /\ Len(Messages(state[last.thread])) >= 1

\* the response generator appended to messages with events in the cache
C29_WitnessResponse ==
    /\ last.op = "generate_guardrail_response"
    /\ Len(Events(last.pre)) >= 1
    /\ Len(Messages(last.pre)) >= 1
    /\ Len(Messages(state[last.thread])) = Len(Messages(last.pre)) + 1

\* The record the CRM holds for the lead of the call that ran last
StoredRecord == leads_db[last.ret.lead_id].data

\* C30: a registration tool stores a record whose consentimiento is SI only
\* when consent_obtained was true in the state at the time of the call.
C30_ConsentFlagNeedsConsent ==
    (last.op \in CrmTools /\ last.ret.status = "success"
     /\ StoredRecord.consentimiento = "SI")
    => Consent(last.pre)

\* What holds: every record a registration tool stores says SI.
C30_AlwaysSi ==
    (last.op \in CrmTools /\ last.ret.status = "success")
    => StoredRecord.consentimiento = "SI"

=============================================================================
